---- MODULE Spec2Model ----
(***************************************************************************)
(* Model of cloud/amazon/ec2_healthcheck.py: the EC2HealthCheck polling    *)
(* loop (check_health), the reachability rule (_is_instance_reachable)     *)
(* and the entry point (main) that reports the outcome.                    *)
(*                                                                         *)
(* One invocation of the module is one behaviour.  pc is the position of   *)
(* the single thread of control:                                           *)
(*   "main"    before the HAS_BOTO test (line 144)                         *)
(*   "connect" before connect_to_region (lines 88-96)                      *)
(*   "query"   before the first get_all_instance_status (line 98)          *)
(*   "while"   at the loop test (line 101)                                 *)
(*   "eval"    before _is_instance_reachable (line 104)                    *)
(*   "sleep"   before time.sleep (line 107)                                *)
(*   "requery" before the in-loop get_all_instance_status (line 108)       *)
(*   "returned" check_health has returned a boolean                        *)
(*   "raised"  an exception is propagating out of check_health             *)
(*   "exited"  main has emitted its report and the process has exited      *)
(*                                                                         *)
(* Spec is one invocation.  ConcSpec is two check_health calls running     *)
(* at the same time, each on its own locals (threads).  FunSpec applies    *)
(* check_health, written as a function of the provider's answers, to       *)
(* chosen inputs (mono).                                                   *)
(***************************************************************************)
EXTENDS Integers, Sequences, FiniteSets

\* ---------------------------------------------------------------- bounds
MaxRepeat == 12

\* largest repeat of the concurrent calls
MaxConcRepeat == 2

\* largest repeat check_health is applied to as a function
MaxFunRepeat == 2

\* the values of the interval parameter that are explored (seconds)
Intervals == {5, 10}

\* ------------------------------------------------------- status snapshots
\* instance_status.status as reported by the provider; "None" is an unset one
StatusValues == {"ok", "impaired", "None"}

\* state_name; "None" is an unset one
StateNames == {"running", "pending", "None"}

\* system_status.details['reachability']; "missing" is a details dict
\* without that key
ReachabilityValues == {"passed", "failed", "missing"}

InstanceStatuses ==
    [instance_status : StatusValues,
     state_name : StateNames,
     reachability : ReachabilityValues]

\* what get_all_instance_status(instance_ids=[instance_id]) can return:
\* an empty list or a list with the one instance's status
StatusLists == {<< >>} \cup { <<s>> : s \in InstanceStatuses }

\* ----------------------------------------------------- reachability rule
\* the rule without its state_name test
is_instance_reachable_NoStateTest(status_list) ==
    IF Len(status_list) = 0 THEN "False"
    ELSE LET status == status_list[1] IN
         IF status.instance_status # "ok" THEN "False"
         ELSE IF status.reachability = "missing" THEN "KeyError"
         ELSE IF status.reachability # "passed" THEN "False"
         ELSE "True"

\* the rule without its test for an empty list: status_list[0] raises
is_instance_reachable_NoEmptyTest(status_list) ==
    IF Len(status_list) = 0 THEN "IndexError"
    ELSE LET status == status_list[1] IN
         IF status.instance_status # "ok" THEN "False"
         ELSE IF status.state_name # "running" THEN "False"
         ELSE IF status.reachability = "missing" THEN "KeyError"
         ELSE IF status.reachability # "passed" THEN "False"
         ELSE "True"

\* _is_instance_reachable(status_list): "True", "False", or "KeyError" when
\* the subscript details['reachability'] is evaluated on a dict without it
is_instance_reachable(status_list) ==
    IF Len(status_list) = 0 THEN "False"
    ELSE LET status == status_list[1] IN
         IF status.instance_status # "ok" THEN "False"
         ELSE IF status.state_name # "running" THEN "False"
         ELSE IF status.reachability = "missing" THEN "KeyError"
         ELSE IF status.reachability # "passed" THEN "False"
         ELSE "True"

\* a loop condition that lets the body run once more
LoopCond_OneMore(c, r) == c <= r

\* the loop condition of check_health (line 101)
LoopCond(c, r) == c < r

\* ------------------------------------------------------------------ state
VARIABLES
    pc,               \* position of the thread of control
    repeat,           \* params['repeat']
    interval,         \* params['interval']
    fail_unreachable, \* params['fail_unreachable']
    count,            \* check_health's local count
    status,           \* check_health's local status (last query's result)
    result,           \* value returned by check_health: "None" until it returns
    error,            \* the exception propagating out of check_health, or "None"
    reports,          \* payloads emitted by main through exit_json / fail_json
    queries,          \* number of get_all_instance_status calls made
    evals,            \* number of _is_instance_reachable calls made
    verdict,          \* what the last _is_instance_reachable call gave, or "None"
    sleeps,           \* number of time.sleep calls made
    elapsed,          \* total seconds slept
    log,              \* the calls made so far, in order
    verdicts,         \* per query, what the rule says of the snapshot returned
    allEmpty,         \* every query so far returned an empty list
    threads,          \* the locals of concurrent check_health calls, per call
    mono              \* inputs and results of check_health applied as a function

vars == <<pc, repeat, interval, fail_unreachable, count, status, result,
          error, reports, queries, evals, verdict, sleeps, elapsed, log,
          verdicts, allEmpty, threads, mono>>

\* the state that belongs to the other specifications
aux == <<threads, mono>>

params == <<repeat, interval, fail_unreachable>>
locals == <<count, status>>
counters == <<queries, evals, verdict, sleeps, elapsed, log, verdicts,
              allEmpty>>

Init ==
    /\ pc = "main"
    /\ repeat \in 0..MaxRepeat
    /\ interval \in Intervals
    /\ fail_unreachable \in BOOLEAN
    /\ count = 0
    /\ status = << >>
    /\ result = "None"
    /\ error = "None"
    /\ reports = << >>
    /\ queries = 0
    /\ evals = 0
    /\ verdict = "None"
    /\ sleeps = 0
    /\ elapsed = 0
    /\ log = << >>
    /\ verdicts = << >>
    /\ allEmpty = TRUE
    /\ threads = << >>
    /\ mono = << >>

\* ------------------------------------------------------------------- main
\* module.fail_json(msg=...): emits a failure payload and exits
fail_json(msg) == [kind |-> "fail_json", changed |-> "absent", msg |-> msg]

\* module.exit_json(changed=False, stdout=...): emits a success payload and exits
exit_json(msg) == [kind |-> "exit_json", changed |-> "False", msg |-> msg]

\* lines 144-153: the HAS_BOTO test, then the call of check_health
MainStart ==
    /\ pc = "main"
    /\ \E HAS_BOTO \in BOOLEAN :
          IF ~HAS_BOTO
          THEN /\ reports' = Append(reports, fail_json("boto required"))
               /\ pc' = "exited"
          ELSE /\ pc' = "connect"
               /\ UNCHANGED reports
    /\ UNCHANGED <<aux, params, locals, result, error, counters>>

\* lines 88-96: connect_to_region either gives a connection, gives None
\* (then check_health raises), or raises itself
Connect ==
    /\ pc = "connect"
    /\ \E conn \in {"connection", "None", "raises"} :
          IF conn = "connection"
          THEN /\ pc' = "query"
               /\ UNCHANGED error
          ELSE /\ pc' = "raised"
               /\ error' = IF conn = "None" THEN "Couldn't connect"
                                            ELSE "connect_to_region"
    /\ UNCHANGED <<aux, params, locals, result, reports, counters>>

\* a query whose failure is swallowed and taken for an empty status list
get_all_instance_status_Swallowed ==
    /\ queries' = queries + 1
    /\ log' = Append(log, "query")
    /\ \/ \E s \in StatusLists :
             /\ status' = s
             /\ verdicts' = Append(verdicts, is_instance_reachable(s))
             /\ allEmpty' = (allEmpty /\ s = << >>)
             /\ pc' = "while"
             /\ UNCHANGED error
       \/ /\ pc' = "while"
          /\ status' = << >>
          /\ error' = "get_all_instance_status"
          /\ UNCHANGED <<verdicts, allEmpty>>

\* one call of conn.get_all_instance_status: it returns a status list, which
\* is stored in status and control goes to the loop test, or it raises
get_all_instance_status ==
    /\ queries' = queries + 1
    /\ log' = Append(log, "query")
    /\ \/ \E s \in StatusLists :
             /\ status' = s
             /\ verdicts' = Append(verdicts, is_instance_reachable(s))
             /\ allEmpty' = (allEmpty /\ s = << >>)
             /\ pc' = "while"
             /\ UNCHANGED error
       \/ /\ pc' = "raised"
          /\ error' = "get_all_instance_status"
          /\ UNCHANGED <<status, verdicts, allEmpty>>

\* lines 98-100: the query before the loop, then count = 0
QueryFirst ==
    /\ pc = "query"
    /\ get_all_instance_status
    /\ count' = 0
    /\ UNCHANGED <<aux, params, result, reports, evals, verdict, sleeps, elapsed>>

\* line 108: the query at the end of the loop body
QueryNext ==
    /\ pc = "requery"
    /\ get_all_instance_status
    /\ UNCHANGED <<aux, params, count, result, reports, evals, verdict, sleeps,
                   elapsed>>

\* lines 101-102 and 110: the loop test; count += 1 on entry, return False
\* on exit
LoopTest ==
    /\ pc = "while"
    /\ IF LoopCond(count, repeat)
       THEN /\ count' = count + 1
            /\ pc' = "eval"
            /\ UNCHANGED result
       ELSE /\ result' = "False"
            /\ pc' = "returned"
            /\ UNCHANGED count
    /\ UNCHANGED <<aux, params, status, error, reports, counters>>

\* an evaluation whose positive verdict does not leave the loop
Evaluate_NoReturn ==
    /\ pc = "eval"
    /\ evals' = evals + 1
    /\ log' = Append(log, "eval")
    /\ LET v == is_instance_reachable(status) IN
          /\ verdict' = v
          /\ pc' = IF v \in {"True", "False"} THEN "sleep" ELSE "raised"
          /\ error' = IF v \in {"True", "False"} THEN error ELSE v
    /\ UNCHANGED <<aux, params, locals, result, reports, queries, sleeps, elapsed,
                   verdicts, allEmpty>>

\* an evaluation that records a positive verdict but stays in the loop
Evaluate_FlagOnly ==
    /\ pc = "eval"
    /\ evals' = evals + 1
    /\ log' = Append(log, "eval")
    /\ LET v == is_instance_reachable(status) IN
          /\ verdict' = v
          /\ pc' = IF v \in {"True", "False"} THEN "sleep" ELSE "raised"
          /\ result' = IF v = "True" THEN "True" ELSE result
          /\ error' = IF v \in {"True", "False"} THEN error ELSE v
    /\ UNCHANGED <<aux, params, locals, reports, queries, sleeps, elapsed,
                   verdicts, allEmpty>>

\* lines 104-105: evaluate the current status; return True when reachable
Evaluate ==
    /\ pc = "eval"
    /\ evals' = evals + 1
    /\ log' = Append(log, "eval")
    /\ LET v == is_instance_reachable(status) IN
          /\ verdict' = v
          /\ pc' = CASE v = "True" -> "returned"
                     [] v = "False" -> "sleep"
                     [] OTHER -> "raised"
          /\ result' = IF v = "True" THEN "True" ELSE result
          /\ error' = IF v \in {"True", "False"} THEN error ELSE v
    /\ UNCHANGED <<aux, params, locals, reports, queries, sleeps, elapsed,
                   verdicts, allEmpty>>

\* line 107: time.sleep(interval)
Sleep ==
    /\ pc = "sleep"
    /\ sleeps' = sleeps + 1
    /\ elapsed' = elapsed + interval
    /\ log' = Append(log, "sleep")
    /\ pc' = "requery"
    /\ UNCHANGED <<aux, params, locals, result, error, reports, queries, evals,
                   verdict, verdicts, allEmpty>>

\* a report that does not look at fail_unreachable
MainReport_IgnoresFlag ==
    /\ pc = "returned"
    /\ reports' = Append(reports,
                         exit_json(IF result = "True" THEN "rechable"
                                                      ELSE "unreachable"))
    /\ pc' = "exited"
    /\ UNCHANGED <<aux, params, locals, result, error, counters>>

\* lines 158-167: check_health returned; fail_json exits the process, so
\* exit_json is reached only when fail_json was not called
MainReport ==
    /\ pc = "returned"
    /\ reports' =
         IF result # "True" /\ fail_unreachable
         THEN Append(reports, fail_json("isn't reachable"))
         ELSE Append(reports,
                     exit_json(IF result = "True" THEN "rechable"
                                                  ELSE "unreachable"))
    /\ pc' = "exited"
    /\ UNCHANGED <<aux, params, locals, result, error, counters>>

\* an exception handler that reports success when fail_unreachable is off
MainExcept_HonoursFlag ==
    /\ pc = "raised"
    /\ reports' = IF fail_unreachable
                  THEN Append(reports, fail_json("An error occurred"))
                  ELSE Append(reports, exit_json("unreachable"))
    /\ pc' = "exited"
    /\ UNCHANGED <<aux, params, locals, result, error, counters>>

\* lines 168-171: an exception left check_health
MainExcept ==
    /\ pc = "raised"
    /\ reports' = Append(reports, fail_json("An error occurred"))
    /\ pc' = "exited"
    /\ UNCHANGED <<aux, params, locals, result, error, counters>>

Next ==
    \/ MainStart
    \/ Connect
    \/ QueryFirst
    \/ QueryNext
    \/ LoopTest
    \/ Evaluate
    \/ Sleep
    \/ MainReport
    \/ MainExcept

Spec == Init /\ [][Next]_vars

\* the module runs in one thread and every call it makes (connect, query,
\* sleep, report) is taken to complete: a step that can be taken is taken
FairSpec == Spec /\ WF_vars(Next)

TypeOK ==
    /\ pc \in {"main", "connect", "query", "while", "eval", "sleep",
               "requery", "returned", "raised", "exited"}
    /\ repeat \in 0..MaxRepeat
    /\ count \in 0..MaxRepeat
    /\ status \in StatusLists
    /\ result \in {"None", "True", "False"}

\* ------------------------------------------- check_health as a function
\* one answer of the provider to get_all_instance_status: a status list, or
\* an exception
Returns(list) == [raises |-> FALSE, list |-> list]
Raises == [raises |-> TRUE, list |-> << >>]

\* the instance statuses the provider answers with in ConcSpec and FunSpec
Pending ==
    [instance_status |-> "impaired", state_name |-> "pending",
     reachability |-> "failed"]
Healthy ==
    [instance_status |-> "ok", state_name |-> "running",
     reachability |-> "passed"]
NoReachabilityKey ==
    [instance_status |-> "ok", state_name |-> "running",
     reachability |-> "missing"]

SomeStatusLists == {<< >>, <<Pending>>, <<Healthy>>, <<NoReachabilityKey>>}
Answers == {Raises} \cup { Returns(l) : l \in SomeStatusLists }

\* what a call of check_health gives and has done when it ends
Outcome(res, err, q, e, sl) ==
    [result |-> res, error |-> err, queries |-> q, evals |-> e, sleeps |-> sl]

\* the answers ran out before check_health ended
Unfinished == Outcome("None", "unfinished", 0, 0, 0)

RECURSIVE check_health_loop_LastVerdict(_, _, _, _, _)
\* a loop that keeps the verdict in a flag and returns the flag at the end:
\* last is the flag, q the number of queries made
check_health_loop_LastVerdict(answers, n, c, q, last) ==
    IF ~LoopCond(c, n) THEN Outcome(last, "None", q, c, c)
    ELSE LET v == is_instance_reachable(answers[q].list) IN
         IF v \notin {"True", "False"} THEN Outcome("None", v, q, c + 1, c)
         ELSE IF q + 1 > Len(answers) THEN Unfinished
         ELSE IF answers[q + 1].raises
         THEN Outcome("None", "get_all_instance_status", q + 1, c + 1, c + 1)
         ELSE check_health_loop_LastVerdict(answers, n, c + 1, q + 1, v)

RECURSIVE check_health_loop(_, _, _, _, _)
\* lines 101-110, from the loop test on: c is count, q the number of queries
\* made (answers[q] is status); last is not used
check_health_loop(answers, n, c, q, last) ==
    IF ~LoopCond(c, n) THEN Outcome("False", "None", q, c, c)
    ELSE LET v == is_instance_reachable(answers[q].list) IN
         IF v = "True" THEN Outcome("True", "None", q, c + 1, c)
         ELSE IF v # "False" THEN Outcome("None", v, q, c + 1, c)
         ELSE IF q + 1 > Len(answers) THEN Unfinished
         ELSE IF answers[q + 1].raises
         THEN Outcome("None", "get_all_instance_status", q + 1, c + 1, c + 1)
         ELSE check_health_loop(answers, n, c + 1, q + 1, last)

\* lines 98-110: check_health with repeat = n on a connection whose queries
\* are answered by answers, in order
check_health_on(answers, n) ==
    IF Len(answers) = 0 THEN Unfinished
    ELSE IF answers[1].raises
    THEN Outcome("None", "get_all_instance_status", 1, 0, 0)
    ELSE check_health_loop(answers, n, 0, 1, "False")

\* ------------------------------------------------------ concurrent calls
Threads == {1, 2}

\* the thread's locals after connect_to_region gave it its own conn
ThreadStart(n) ==
    [pc |-> "query", repeat |-> n, count |-> 0, status |-> << >>,
     result |-> "None", error |-> "None", queries |-> 0, evals |-> 0,
     sleeps |-> 0, history |-> << >>]

mainVars == <<pc, repeat, interval, fail_unreachable, count, status, result,
              error, reports, queries, evals, verdict, sleeps, elapsed, log,
              verdicts, allEmpty>>

\* the variables of the single invocation, at rest
MainIdle ==
    /\ pc = "main"
    /\ repeat = 0
    /\ interval = 5
    /\ fail_unreachable = TRUE
    /\ count = 0
    /\ status = << >>
    /\ result = "None"
    /\ error = "None"
    /\ reports = << >>
    /\ queries = 0
    /\ evals = 0
    /\ verdict = "None"
    /\ sleeps = 0
    /\ elapsed = 0
    /\ log = << >>
    /\ verdicts = << >>
    /\ allEmpty = TRUE

ConcInit ==
    /\ MainIdle
    /\ mono = << >>
    /\ threads \in [Threads -> { ThreadStart(n) : n \in 0..MaxConcRepeat }]

\* lines 98-100 and 108: thread t queries its own connection; count = 0
\* follows the first query
TQuery(t) ==
    /\ threads[t].pc \in {"query", "requery"}
    /\ \E a \in Answers :
          threads' = [threads EXCEPT
              ![t].queries = @ + 1,
              ![t].history = Append(@, a),
              ![t].status = IF a.raises THEN @ ELSE a.list,
              ![t].error = IF a.raises THEN "get_all_instance_status" ELSE @,
              ![t].count = IF threads[t].pc = "query" /\ ~a.raises THEN 0 ELSE @,
              ![t].pc = IF a.raises THEN "raised" ELSE "while"]
    /\ UNCHANGED <<mainVars, mono>>

\* a loop test on a count that is kept in one place for all calls
TLoopTest_SharedCount(t) ==
    /\ threads[t].pc = "while"
    /\ threads' =
         IF LoopCond(threads[1].count, threads[t].repeat)
         THEN [[threads EXCEPT ![1].count = @ + 1] EXCEPT ![t].pc = "eval"]
         ELSE [threads EXCEPT ![t].result = "False", ![t].pc = "returned"]
    /\ UNCHANGED <<mainVars, mono>>

\* lines 101-102 and 110: thread t's loop test
TLoopTest(t) ==
    /\ threads[t].pc = "while"
    /\ threads' =
         IF LoopCond(threads[t].count, threads[t].repeat)
         THEN [threads EXCEPT ![t].count = @ + 1, ![t].pc = "eval"]
         ELSE [threads EXCEPT ![t].result = "False", ![t].pc = "returned"]
    /\ UNCHANGED <<mainVars, mono>>

\* lines 104-105: thread t evaluates its own status
TEvaluate(t) ==
    /\ threads[t].pc = "eval"
    /\ LET v == is_instance_reachable(threads[t].status) IN
          threads' = [threads EXCEPT
              ![t].evals = @ + 1,
              ![t].result = IF v = "True" THEN "True" ELSE @,
              ![t].error = IF v \in {"True", "False"} THEN @ ELSE v,
              ![t].pc = CASE v = "True" -> "returned"
                          [] v = "False" -> "sleep"
                          [] OTHER -> "raised"]
    /\ UNCHANGED <<mainVars, mono>>

\* line 107: thread t sleeps
TSleep(t) ==
    /\ threads[t].pc = "sleep"
    /\ threads' = [threads EXCEPT ![t].sleeps = @ + 1, ![t].pc = "requery"]
    /\ UNCHANGED <<mainVars, mono>>

ConcNext ==
    \E t \in Threads :
        \/ TQuery(t)
        \/ TLoopTest(t)
        \/ TEvaluate(t)
        \/ TSleep(t)

ConcSpec == ConcInit /\ [][ConcNext]_vars

\* ------------------------------------------ check_health on chosen inputs
\* the provider's answers when no query raises: MaxFunRepeat + 2 of them, as
\* many as check_health with repeat = MaxFunRepeat + 1 can ask for
RECURSIVE AnswerSeqs(_)
AnswerSeqs(len) ==
    IF len = 0 THEN { << >> }
    ELSE { Append(a, Returns(l)) : a \in AnswerSeqs(len - 1),
                                   l \in SomeStatusLists }

FunInit ==
    /\ MainIdle
    /\ threads = << >>
    /\ \E a \in AnswerSeqs(MaxFunRepeat + 2), n \in 0..MaxFunRepeat :
          mono = [answers |-> a, n |-> n, applied |-> FALSE,
                  low |-> Unfinished, high |-> Unfinished]

\* check_health applied to the same answers with repeat = n and repeat = n+1
FunApply ==
    /\ ~mono.applied
    /\ mono' = [mono EXCEPT
                   !.applied = TRUE,
                   !.low = check_health_on(mono.answers, mono.n),
                   !.high = check_health_on(mono.answers, mono.n + 1)]
    /\ UNCHANGED <<mainVars, threads>>

FunNext == FunApply

FunSpec == FunInit /\ [][FunNext]_vars

\* ================================================================ claims
\* check_health has returned a boolean to main
Returned == result # "None"

\* some queried snapshot is one the rule calls reachable
SomeReachable == \E i \in 1..Len(verdicts) : verdicts[i] = "True"

\* every queried snapshot is one the rule calls unreachable
AllUnreachable == \A i \in 1..Len(verdicts) : verdicts[i] = "False"

\* the last call made, "none" before the first
LastCall == IF Len(log) = 0 THEN "none" ELSE log[Len(log)]

\* the status held is the one the last _is_instance_reachable call looked at
JustEvaluated == LastCall = "eval"

\* the three conditions of reachability on one instance status
AllThree(s) ==
    /\ s.instance_status = "ok"
    /\ s.state_name = "running"
    /\ s.reachability = "passed"

\* no field of the instance status is unset or missing
AllPresent(s) ==
    /\ s.instance_status # "None"
    /\ s.state_name # "None"
    /\ s.reachability # "missing"

\* C1: when check_health returns, it returns True exactly when one of the
\* (at most repeat+1) snapshots queried is reachable, and it returns False
\* only after repeat+1 snapshots none of which is reachable.
C1_ResultIsAnyReachable ==
    Returned =>
        /\ queries <= repeat + 1
        /\ (result = "True") <=> SomeReachable
        /\ (result = "False") => queries = repeat + 1

\* C2: with repeat = 0, a returning check_health has made one query, no
\* sleep, one evaluation, and returns the verdict on that snapshot.
C2_RepeatZeroSingleCheck ==
    (Returned /\ repeat = 0) =>
        /\ queries = 1
        /\ sleeps = 0
        /\ evals = 1
        /\ result = verdicts[1]

\* C3: when every queried snapshot is unreachable, check_health returns False
\* after exactly repeat+1 queries and exactly repeat sleeps.
C3_AllUnreachableCounts ==
    (Returned /\ AllUnreachable) =>
        /\ queries = repeat + 1
        /\ sleeps = repeat
        /\ elapsed = repeat * interval
        /\ result = "False"

C3_Witness ==
    /\ pc = "returned"
    /\ AllUnreachable
    /\ repeat = 12
    /\ interval = 5
    /\ queries = 13
    /\ sleeps = 12
    /\ result = "False"

\* C4: a sleep directly follows a failed evaluation and is directly followed
\* by a query, and a False return directly follows an evaluation: no sleep
\* and no query lies between the last failed evaluation and the return.
C4_NoTrailingSleep ==
    /\ \A i \in 1..Len(log) :
          log[i] = "sleep" =>
              /\ i > 1
              /\ log[i - 1] = "eval"
              /\ (i < Len(log) => log[i + 1] = "query")
    /\ (result = "False") => LastCall = "eval"

\* C5: an evaluation that finds the instance reachable makes check_health
\* return True at once, and after that no query, sleep or evaluation is made.
C5_ReturnsAtOnce ==
    [][ /\ (evals' = evals + 1 /\ verdict' = "True") =>
               (result' = "True" /\ pc' = "returned")
        /\ (result = "True") =>
               /\ result' = "True"
               /\ queries' = queries
               /\ sleeps' = sleeps
               /\ evals' = evals
               /\ log' = log ]_vars

C5_Witness ==
    /\ pc = "exited"
    /\ result = "True"
    /\ count < repeat
    /\ queries = 2
    /\ sleeps = 1

\* C6: a query that raises ends check_health: the exception leaves it, no
\* boolean is returned, and no query, evaluation or sleep follows.
C6_QueryErrorAborts ==
    [][ /\ (error' = "get_all_instance_status") =>
               (result' = "None" /\ pc' \in {"raised", "exited"})
        /\ (error = "get_all_instance_status") =>
               /\ error' = error
               /\ queries' = queries
               /\ evals' = evals
               /\ sleeps' = sleeps
               /\ log' = log ]_vars

C6_Witness ==
    /\ pc = "exited"
    /\ error = "get_all_instance_status"
    /\ repeat >= 2
    /\ queries = repeat + 1
    /\ sleeps = repeat

\* C7: at most repeat+1 attempts (a query and its evaluation) are ever made,
\* and a returning check_health has made at least one query and at least one
\* evaluation.
C7_AttemptsBetweenOneAndMax ==
    /\ evals <= repeat + 1
    /\ queries <= repeat + 1
    /\ Returned => (queries >= 1 /\ evals >= 1)

C9_EmptyIsUnreachable ==
    /\ (JustEvaluated /\ status = << >>) =>
          /\ verdict = "False"
          /\ error = "None"
          /\ pc = "sleep"
          /\ evals = count
    /\ (Returned /\ allEmpty) =>
          /\ queries = repeat + 1
          /\ result = "False"

C9_Witness ==
    /\ pc = "exited"
    /\ allEmpty
    /\ repeat = 3
    /\ evals = 3
    /\ queries = 4
    /\ result = "False"

\* C10: an instance status with an unset or missing field is evaluated as
\* False without an exception, and the loop goes on to its sleep.
C10_MissingFieldIsUnreachable ==
    (JustEvaluated /\ Len(status) = 1 /\ ~AllPresent(status[1])) =>
        /\ verdict = "False"
        /\ error = "None"
        /\ pc = "sleep"

\* C11: main emits no report before it exits and exactly one when it exits;
\* after check_health returned, that report is the success payload with
\* changed=False and the "rechable" message when the result is True, the
\* failure payload when the result is False and fail_unreachable is set, and
\* the success payload with changed=False and the "unreachable" message when
\* the result is False and fail_unreachable is not set.
C11_OneReportPerOutcome ==
    /\ Len(reports) = (IF pc = "exited" THEN 1 ELSE 0)
    /\ (pc = "exited" /\ result = "True") =>
          /\ reports[1].kind = "exit_json"
          /\ reports[1].changed = "False"
          /\ reports[1].msg = "rechable"
    /\ (pc = "exited" /\ result = "False" /\ fail_unreachable) =>
          /\ reports[1].kind = "fail_json"
          /\ reports[1].msg = "isn't reachable"
    /\ (pc = "exited" /\ result = "False" /\ ~fail_unreachable) =>
          /\ reports[1].kind = "exit_json"
          /\ reports[1].changed = "False"
          /\ reports[1].msg = "unreachable"

C11_Witness ==
    /\ pc = "exited"
    /\ result = "False"
    /\ fail_unreachable
    /\ evals >= 1
    /\ reports = << fail_json("isn't reachable") >>

\* the terminal states of one run of check_health
REACHABLE == result = "True"
EXHAUSTED == result = "False"
QUERY_FAILED == error # "None"
Terminal == REACHABLE \/ EXHAUSTED \/ QUERY_FAILED

\* C12: a run of check_health, once started, eventually ends; it ends in
\* exactly one of: True returned, False returned, an exception raised; and
\* from then on no query, evaluation or sleep is made and the end state stays.
C12_EndsInOneTerminalState ==
    /\ (pc = "connect") ~> Terminal
    /\ [](Terminal => /\ pc \in {"returned", "raised", "exited"}
                      /\ ~(REACHABLE /\ QUERY_FAILED)
                      /\ ~(EXHAUSTED /\ QUERY_FAILED))
    /\ [][Terminal => /\ result' = result
                      /\ error' = error
                      /\ queries' = queries
                      /\ evals' = evals
                      /\ sleeps' = sleeps
                      /\ log' = log]_vars

C12_Witness ==
    /\ pc = "exited"
    /\ EXHAUSTED
    /\ repeat >= 3
    /\ sleeps = repeat
    /\ queries = repeat + 1

\* C13: the calls are made in the order query, evaluation, sleep, query, ...:
\* the first call is a query, every query that returned a snapshot is
\* followed by its evaluation before anything else (a sleep, a query or the
\* return), every sleep follows an evaluation and precedes a query, and each
\* sleep lasts interval seconds.
C13_StrictlySequential ==
    /\ Len(log) > 0 => log[1] = "query"
    /\ \A i \in 1..Len(log) :
          i < Len(log) =>
              log[i + 1] = (CASE log[i] = "query" -> "eval"
                              [] log[i] = "eval" -> "sleep"
                              [] OTHER -> "query")
    /\ Returned => LastCall = "eval"
    /\ elapsed = sleeps * interval

\* C14: when check_health returns, the value returned is the rule's verdict
\* on the last snapshot queried.
C14_ResultIsLastVerdict ==
    Returned => result = verdicts[Len(verdicts)]

\* thread t's check_health has ended
Ended(t) == threads[t].pc \in {"returned", "raised"}

\* what thread t's check_health gave and did
OutcomeOf(t) ==
    Outcome(threads[t].result, threads[t].error, threads[t].queries,
            threads[t].evals, threads[t].sleeps)

\* C15: of two check_health calls running at the same time, under every
\* interleaving, each ends with the result and the numbers of queries,
\* evaluations and sleeps that check_health alone gives on the answers it
\* received, and a step of one call leaves the locals of the other as they
\* were.
C15_ConcurrentRunsIndependent ==
    /\ [](\A t \in Threads :
            Ended(t) =>
                OutcomeOf(t) = check_health_on(threads[t].history,
                                               threads[t].repeat))
    /\ [][\A t \in Threads :
            threads'[t] # threads[t] =>
                \A u \in Threads \ {t} : threads'[u] = threads[u]]_vars

C15_Witness ==
    /\ threads[1].pc = "returned"
    /\ threads[1].result = "True"
    /\ threads[1].queries = 2
    /\ threads[1].repeat = 2
    /\ threads[2].pc = "returned"
    /\ threads[2].result = "False"
    /\ threads[2].queries = 2
    /\ threads[2].repeat = 1

\* C17: on the same answers, none of them an exception, when check_health
\* with repeat = n returns True, check_health with repeat = n+1 returns True
\* too, after the same numbers of queries and sleeps.
C17_MonotoneInRepeat ==
    (mono.applied /\ mono.low.result = "True") =>
        /\ mono.high.result = "True"
        /\ mono.high.queries = mono.low.queries
        /\ mono.high.sleeps = mono.low.sleeps

C17_Witness ==
    /\ mono.applied
    /\ mono.n = 2
    /\ mono.low.result = "True"
    /\ mono.low.queries = 2
    /\ mono.low.sleeps = 1
    /\ mono.answers[3].list = << >>

\* C16: when connecting or a query raised, main exits with one failure
\* payload and no success payload, whatever fail_unreachable is; a failed
\* connection is reported after no query and no sleep.
C16_ErrorAlwaysFails ==
    (pc = "exited" /\ error # "None") =>
        /\ reports = << fail_json("An error occurred") >>
        /\ \A i \in 1..Len(reports) : reports[i].kind # "exit_json"
        /\ (error \in {"Couldn't connect", "connect_to_region"}) =>
               (queries = 0 /\ sleeps = 0 /\ evals = 0)

C16_Witness ==
    /\ pc = "exited"
    /\ error = "Couldn't connect"
    /\ ~fail_unreachable
    /\ queries = 0
    /\ reports = << fail_json("An error occurred") >>
====
